---- MODULE Spec2Model ----
(***************************************************************************)
(* A model of package pidfd (github.com/mdlayher/pidfd): a handle to a     *)
(* Linux pidfd with Open, Close, SendSignal and a context-cancelable Wait. *)
(*                                                                         *)
(* The model follows src/pidfd_linux.go (open, sendSignal, wait, wrap) and *)
(* src/unnamed/part_000 (File, Error).  The collaborators the code calls   *)
(* (the kernel's pidfd_open / pidfd_send_signal / waitid, and the runtime  *)
(* poller behind syscall.RawConn.Read and SetReadDeadline) are modelled by *)
(* what they do at the call sites.                                         *)
(***************************************************************************)
EXTENDS Naturals, Sequences, FiniteSets, TLC

\* ------------------------------------------------------------------ bounds

\* How many times the poller may report readiness although the process has
\* not exited (spurious readiness), over a whole behaviour.
MaxSpurious == 2

\* How many canceled Wait calls are counted (the counter saturates here).
MaxCanceled == 2

\* How many invocations of the signal-delivery primitive are counted.
MaxSends == 1

\* ------------------------------------------------------------------ values

\* The callers (threads of control) that may invoke Wait on the handle.
Callers == {"A", "B"}

\* Serialized use of a handle: one caller issues every Wait call.
SerialCallers == {"A"}

\* pid 1 (init): a live process the caller is not allowed to signal and
\* that is not a child of the caller.
InitPid == 1

\* A pid no process has.
GonePid == 12345678

\* The pid of the child process the tests spawn (cmd.Process.Pid).
ChildPid == InitPid + 1

Pids == {InitPid, ChildPid, GonePid}

\* The descriptors every process starts with (stdin, stdout, stderr).
StdFds == {0, 1, 2}

\* The nil error of the Wait path (context, poller and errno values).
nil == "nil"

\* context.Context errors.
CtxErrors == {"Canceled", "DeadlineExceeded"}

\* The state of the descriptor's read deadline: the zero time.Time (none)
\* or time.Unix(0, 1), which is in the past (expired).
NoDeadline == "none"
PastDeadline == "expired"

\* ------------------------------------------------------------------- state

VARIABLES
    \* the observed child process and its environment
    proc,          \* "running" | "zombie" (exited, unreaped) | "reaped"
    status,        \* how the child terminated: "none" | "exit0" | a signal
    pending,       \* a signal delivered to the child, not yet acted on
    reapStatus,    \* what the caller's own reaping wait (cmd.Wait) obtained
    \* the File
    f,             \* [state, pid, fd]: state "none" | "open" | "closed"
    fds,           \* the descriptors the program holds
    deadline,      \* the descriptor's read deadline
    rlock,         \* the caller inside rc.Read (the descriptor's read lock)
    \* Open and SendSignal
    openCall,      \* the last Open: [pid, err]
    sigCall,       \* the last SendSignal: [sig, oserr, err]
    sendCalls,     \* invocations of the pidfd_send_signal primitive
    isCall,        \* the last errors.Is on an Error: [called, err, target, own, result]
    \* one Wait invocation per caller
    pc,            \* the main path's position
    wpc,           \* the watcher goroutine's position
    ctxErr,        \* the error of the context the caller passed in
    canceled,      \* cancel() of the derived context has been called
    cerr, rerr, werr, serr,   \* wait's four error variables
    ret,           \* what the last Wait returned
    \* history
    spurious,      \* spurious readiness reports so far
    nCanceled      \* Wait calls that returned Canceled so far

procVars == <<proc, status, pending, reapStatus>>
fileVars == <<f, fds>>
callVars == <<openCall, sigCall, sendCalls, isCall>>
errVars  == <<cerr, rerr, werr, serr>>
waitVars == <<pc, wpc, ctxErr, canceled, cerr, rerr, werr, serr, ret>>
histVars == <<spurious, nCanceled>>
vars == <<proc, status, pending, reapStatus, f, fds, deadline, rlock,
          openCall, sigCall, sendCalls, isCall, pc, wpc, ctxErr, canceled,
          cerr, rerr, werr, serr, ret, spurious, nCanceled>>

\* ------------------------------------------------------------ error values

\* An error of Open or SendSignal is its chain of wrapped errors, outermost
\* first; the nil error is the empty chain.
NoError == <<>>

Errno(e) == [type |-> "Errno", errno |-> e]
SyscallError(op) == [type |-> "SyscallError", op |-> op]
Sentinel(name) == [type |-> "sentinel", name |-> name]
ErrorString(msg) == [type |-> "errorString", msg |-> msg]

\* &Error{PID: pid, FD: fd, Err: err}
DomainError(pid, fd, err) == <<[type |-> "Error", PID |-> pid, FD |-> fd]>> \o err

\* os.NewSyscallError(op, errno)
NewSyscallError(op, e) == <<SyscallError(op), Errno(e)>>

\* (*Error).Unwrap, (*os.SyscallError).Unwrap
Unwrap(err) == IF err = NoError THEN NoError ELSE Tail(err)

ErrNotExist == Sentinel("ErrNotExist")
ErrPermission == Sentinel("ErrPermission")

\* var esrch = unix.ESRCH
\* (variant: the "no such file" errno in its place)
esrchENOENT == Errno("ENOENT")
esrch == Errno("ESRCH")

\* syscall.Errno.Is: the errno values package os maps to its sentinels.
ErrnoIs(e, target) ==
    \/ target = ErrPermission /\ e \in {"EACCES", "EPERM"}
    \/ target = ErrNotExist /\ e = "ENOENT"

\* errors.Is(err, target): walk the chain; at each error compare it with the
\* target, then ask its Is method ((*Error).Is, syscall.Errno.Is).
RECURSIVE ErrorsIs(_, _)
\* (*Error).Is: os.ErrNotExist is "no such process"; anything else falls
\* back to the next error in the chain.
\* (variant: no case of its own, every target falls back)
ErrorIsNoCase(err, target) == FALSE
ErrorIs(err, target) ==
    IF target = ErrNotExist THEN ErrorsIs(Unwrap(err), esrch) ELSE FALSE
ErrorsIs(err, target) ==
    IF err = NoError THEN FALSE
    ELSE \/ Head(err) = target
         \/ Head(err).type = "Error" /\ ErrorIs(err, target)
         \/ Head(err).type = "Errno" /\ ErrnoIs(Head(err).errno, target)
         \/ ErrorsIs(Unwrap(err), target)

\* --------------------------------------------------------------- signals

\* os.Signal values: unix.Signal ones, and one of another dynamic type.
SIGINT == [type |-> "unix.Signal", name |-> "SIGINT"]
SIGHUP == [type |-> "unix.Signal", name |-> "SIGHUP"]
OtherSignal == [type |-> "other", name |-> "SIGINT"]
NoSignal == [type |-> "none", name |-> "none"]
Signals == {SIGINT, SIGHUP, OtherSignal}

\* ssig, ok := signal.(unix.Signal)
\* (variant: the type assertion is not checked)
IsUnixSignalUnchecked(signal) == TRUE
IsUnixSignal(signal) == signal.type = "unix.Signal"

\* ---------------------------------------------------------- the kernel

\* Whether a process with this pid exists (a zombie still does).
ProcExists(pid) == pid = InitPid \/ (pid = ChildPid /\ proc # "reaped")

\* unix.PidfdOpen(pid, PIDFD_NONBLOCK): the errno, nil on success.
PidfdOpen(pid, exhausted) ==
    IF ~ProcExists(pid) THEN "ESRCH"
    ELSE IF exhausted THEN "EMFILE"
    ELSE nil

\* The descriptor a successful pidfd_open returns: the lowest free one.
LowestFreeOf(held) == CHOOSE n \in 0..(Cardinality(StdFds \cup held)) :
                          /\ n \notin StdFds \cup held
                          /\ \A m \in 0..n : m < n => m \in StdFds \cup held
LowestFree == LowestFreeOf(fds)

\* f.c.PidfdSendSignal(ssig, nil, 0): the error chain, NoError on success.
PidfdSendSignal ==
    IF f.state = "closed" THEN NewSyscallError("pidfd_send_signal", "EBADF")
    ELSE IF f.pid = InitPid THEN NewSyscallError("pidfd_send_signal", "EPERM")
    ELSE IF proc = "reaped" THEN NewSyscallError("pidfd_send_signal", "ESRCH")
    ELSE NoError

\* The flags wait passes to waitid.
\* (variant: WNOWAIT left out)
WaitidFlagsReaping == {"WEXITED"}
WaitidFlags == {"WEXITED", "WNOWAIT"}

\* unix.Waitid(unix.P_PIDFD, fd, &si, flags, nil) on the nonblocking pidfd:
\* the errno, nil when the child has exited.
Waitid ==
    IF f.pid # ChildPid \/ proc = "reaped" THEN "ECHILD"
    ELSE IF proc = "zombie" /\ "WEXITED" \in WaitidFlags THEN nil
    ELSE "EAGAIN"

\* The child after waitid: without WNOWAIT a reported exit is consumed.
AfterWaitid ==
    IF Waitid = nil /\ "WNOWAIT" \notin WaitidFlags THEN "reaped" ELSE proc

\* The pidfd polls readable once the process has terminated.
Readable == proc # "running"

\* ------------------------------------------------------- the initial state

NoOpen == [pid |-> 0, err |-> NoError]
NoSend == [sig |-> NoSignal, called |-> FALSE, oserr |-> NoError, err |-> NoError]
NoIs == [called |-> FALSE, err |-> NoError, target |-> ErrNotExist,
         own |-> FALSE, result |-> FALSE]

Init ==
    /\ proc = "running" /\ status = "none" /\ pending = "none"
    /\ reapStatus = "none"
    /\ f = [state |-> "none", pid |-> 0, fd |-> 0]
    /\ fds = {}
    /\ deadline = NoDeadline
    /\ rlock = "none"
    /\ openCall = NoOpen /\ sigCall = NoSend /\ sendCalls = 0
    /\ isCall = NoIs
    /\ pc = [c \in Callers |-> "idle"]
    /\ wpc = [c \in Callers |-> "none"]
    /\ ctxErr = [c \in Callers |-> nil]
    /\ canceled = [c \in Callers |-> FALSE]
    /\ cerr = [c \in Callers |-> nil]
    /\ rerr = [c \in Callers |-> nil]
    /\ werr = [c \in Callers |-> nil]
    /\ serr = [c \in Callers |-> nil]
    /\ ret = [c \in Callers |-> nil]
    /\ spurious = 0 /\ nCanceled = 0

\* The positions of a Wait invocation between its call and its return.
Active == {"init", "read", "pred", "parked", "unblocked", "sampled", "joining",
           "clearing", "resolved"}
NoWaitActive == \A c \in Callers : pc[c] \notin Active

\* ----------------------------------------------------------- environment

\* The child exits on its own (sleep runs out).
ProcExit ==
    /\ proc = "running"
    /\ proc' = "zombie" /\ status' = "exit0" /\ pending' = "none"
    /\ UNCHANGED <<reapStatus, f, fds, deadline, rlock, callVars, waitVars, histVars>>

\* The child acts on a delivered signal: it is terminated by it.
ProcDie ==
    /\ proc = "running" /\ pending # "none"
    /\ proc' = "zombie" /\ status' = pending /\ pending' = "none"
    /\ UNCHANGED <<reapStatus, f, fds, deadline, rlock, callVars, waitVars, histVars>>

\* The caller's own reaping wait (cmd.Wait) collects the exit status.
Reap ==
    /\ proc = "zombie"
    /\ proc' = "reaped" /\ reapStatus' = status
    /\ UNCHANGED <<status, pending, f, fds, deadline, rlock, callVars, waitVars, histVars>>

\* The context a caller passed to its Wait is canceled, or its deadline
\* passes, while the call is in progress.
CancelCtx(c, e) ==
    /\ pc[c] \in Active /\ ctxErr[c] = nil
    /\ ctxErr' = [ctxErr EXCEPT ![c] = e]
    /\ UNCHANGED <<procVars, f, fds, deadline, rlock, callVars, pc, wpc,
                   canceled, errVars, ret, histVars>>

\* ------------------------------------------------------------ Open, Close

\* open(pid)
Open(pid, exhausted) ==
    /\ f.state = "none"
    /\ LET err == PidfdOpen(pid, exhausted) IN
       IF err # nil
       THEN \* No FD to annotate the error yet.
            /\ openCall' = [pid |-> pid, err |-> DomainError(pid, 0, <<Errno(err)>>)]
            /\ UNCHANGED <<f, fds>>
       ELSE /\ openCall' = [pid |-> pid, err |-> NoError]
            /\ f' = [state |-> "open", pid |-> pid, fd |-> LowestFree]
            /\ fds' = fds \cup {LowestFree}
    /\ UNCHANGED <<procVars, deadline, rlock, sigCall, sendCalls, isCall, waitVars,
                   histVars>>

\* (*File).Close, while no Wait is in progress on the handle.
\* (variant: Close also forces the expired deadline, to unblock readers)
CloseForcingDeadline ==
    /\ f.state = "open" /\ NoWaitActive
    /\ f' = [f EXCEPT !.state = "closed"]
    /\ fds' = fds \ {f.fd}
    /\ deadline' = PastDeadline
    /\ UNCHANGED <<procVars, rlock, callVars, waitVars, histVars>>
Close ==
    /\ f.state = "open" /\ NoWaitActive
    /\ f' = [f EXCEPT !.state = "closed"]
    /\ fds' = fds \ {f.fd}
    /\ UNCHANGED <<procVars, deadline, rlock, callVars, waitVars, histVars>>

\* -------------------------------------------------------------- SendSignal

\* (*File).wrap: annotate err with the File's pid and, best effort, its
\* descriptor (rc.Control fails on a closed File and leaves fd zero).
\* (variant: the pid is not filled in)
wrapWithoutPID(err) ==
    IF err = NoError THEN NoError
    ELSE DomainError(0, IF f.state = "open" THEN f.fd ELSE 0, err)
wrap(err) ==
    IF err = NoError THEN NoError
    ELSE DomainError(f.pid, IF f.state = "open" THEN f.fd ELSE 0, err)

\* (*File).SendSignal -> (*File).sendSignal
SendSignal(signal) ==
    /\ f.state \in {"open", "closed"}
    /\ IF ~IsUnixSignal(signal)
       THEN /\ sigCall' = [sig |-> signal, called |-> FALSE, oserr |-> NoError,
                           err |-> <<ErrorString("pidfd: invalid signal type for File.SendSignal")>>]
            /\ UNCHANGED <<sendCalls, pending>>
       ELSE /\ sigCall' = [sig |-> signal, called |-> TRUE,
                           oserr |-> PidfdSendSignal, err |-> wrap(PidfdSendSignal)]
            /\ sendCalls' = IF sendCalls < MaxSends THEN sendCalls + 1 ELSE sendCalls
            /\ pending' = IF PidfdSendSignal = NoError /\ proc = "running" /\ pending = "none"
                          THEN signal.name ELSE pending
    /\ UNCHANGED <<proc, status, reapStatus, f, fds, deadline, rlock, openCall,
                   isCall, waitVars, histVars>>

\* -------------------------------------------------------------------- Wait

\* ctx.Err() of the context wait derives with context.WithCancel: the
\* parent's error once the parent is done, Canceled once cancel() was called.
\* (variants: cancel() of the derived context has no effect; the derived
\* context reads as canceled before cancel() was called)
ErrOfParent(c) == ctxErr[c]
ErrAsIfCanceled(c) == IF ctxErr[c] # nil THEN ctxErr[c] ELSE "Canceled"
Err(c) ==
    IF ctxErr[c] # nil THEN ctxErr[c]
    ELSE IF canceled[c] THEN "Canceled"
    ELSE nil

\* <-ctx.Done() of the derived context can be received from.
\* (variant: the watcher does not wait for the context)
DoneAtOnce(c) == TRUE
Done(c) == Err(c) # nil

\* f.c.SetReadDeadline(t): the descriptor's deadline afterwards and the
\* error returned (a closed File keeps its deadline and reports the error).
\* (variant: the zero time does not disarm a deadline that is set)
SetReadDeadlineZeroKeeps(t) ==
    IF f.state = "open"
    THEN [deadline |-> IF t = NoDeadline THEN deadline ELSE t, err |-> nil]
    ELSE [deadline |-> deadline, err |-> "ErrFileClosing"]
SetReadDeadline(t) ==
    IF f.state = "open" THEN [deadline |-> t, err |-> nil]
    ELSE [deadline |-> deadline, err |-> "ErrFileClosing"]

\* The deadline the watcher sets to unblock pending reads: time.Unix(0, 1).
\* (variant: the zero time, which sets no deadline)
WatcherDeadlineZero == NoDeadline
WatcherDeadline == PastDeadline

\* The function wait passes to rc.Read, given waitid's errno: whether it
\* tells the poller to stop, and what it stores in werr.
\* (variants: stop at any readiness without consulting waitid; never stop;
\* keep waiting on every error of waitid, not on EAGAIN alone)
ReadFuncReadiness(err) == [stop |-> TRUE, werr |-> nil]
ReadFuncNeverStops(err) == [stop |-> FALSE, werr |-> nil]
ReadFuncRetriesErrors(err) ==
    IF err = nil THEN [stop |-> TRUE, werr |-> nil] ELSE [stop |-> FALSE, werr |-> nil]
ReadFunc(err) ==
    IF err = "EAGAIN" THEN [stop |-> FALSE, werr |-> nil]
    ELSE [stop |-> TRUE, werr |-> err]

\* wg.Wait(): the watcher has called wg.Done().
\* (variant: the main path does not wait for the watcher)
JoinedWithoutWaiting(c) == TRUE
Joined(c) == wpc[c] = "done"

\* for _, err := range errs { if err != nil { return err } }; return nil
RECURSIVE FirstError(_)
FirstError(errs) ==
    IF errs = <<>> THEN nil
    ELSE IF Head(errs) # nil THEN Head(errs)
    ELSE FirstError(Tail(errs))

\* The order in which wait ranges over its errors.
\* (variants: the deadline-clear error first; the context error last)
PrioritySerrFirst(c) == <<serr[c], cerr[c], rerr[c], werr[c]>>
PriorityCtxLast(c) == <<rerr[c], werr[c], serr[c], cerr[c]>>
Priority(c) == <<cerr[c], rerr[c], werr[c], serr[c]>>

\* (*File).Wait -> (*File).wait is called with a context whose error is e:
\* the call is entered with fresh locals and the context is derived.
WaitStart(c, e) ==
    /\ pc[c] \in {"idle", "returned"}
    /\ f.state \in {"open", "closed"}
    /\ pc' = [pc EXCEPT ![c] = "init"]
    /\ wpc' = [wpc EXCEPT ![c] = "none"]
    /\ ctxErr' = [ctxErr EXCEPT ![c] = e]
    /\ canceled' = [canceled EXCEPT ![c] = FALSE]
    /\ cerr' = [cerr EXCEPT ![c] = nil]
    /\ rerr' = [rerr EXCEPT ![c] = nil]
    /\ werr' = [werr EXCEPT ![c] = nil]
    /\ serr' = [serr EXCEPT ![c] = nil]
    /\ ret' = [ret EXCEPT ![c] = nil]
    /\ UNCHANGED <<procVars, f, fds, deadline, rlock, callVars, histVars>>

\* wg.Add(1); go func() { ... }(): the watcher goroutine is started, and
\* the main path goes on to call rc.Read.
StartWatcher(c) ==
    /\ pc[c] = "init"
    /\ wpc' = [wpc EXCEPT ![c] = "waiting"]
    /\ pc' = [pc EXCEPT ![c] = "read"]
    /\ UNCHANGED <<procVars, f, fds, deadline, rlock, callVars, ctxErr,
                   canceled, errVars, ret, histVars>>

\* The watcher receives from ctx.Done().
WatcherWake(c) ==
    /\ wpc[c] = "waiting" /\ Done(c)
    /\ wpc' = [wpc EXCEPT ![c] = "woken"]
    /\ UNCHANGED <<procVars, f, fds, deadline, rlock, callVars, pc, ctxErr,
                   canceled, errVars, ret, histVars>>

\* The watcher sets the past deadline (its error is dropped) and is done.
WatcherSet(c) ==
    /\ wpc[c] = "woken"
    /\ deadline' = SetReadDeadline(WatcherDeadline).deadline
    /\ wpc' = [wpc EXCEPT ![c] = "done"]
    /\ UNCHANGED <<procVars, f, fds, rlock, callVars, pc, ctxErr,
                   canceled, errVars, ret, histVars>>

\* rc.Read begins: a closed File fails; otherwise the read lock is taken
\* (a second reader waits for it) and an expired deadline fails the read
\* before the function is ever called.
ReadEnter(c) ==
    /\ pc[c] = "read"
    /\ IF f.state # "open"
       THEN /\ rerr' = [rerr EXCEPT ![c] = "ErrFileClosing"]
            /\ pc' = [pc EXCEPT ![c] = "unblocked"]
            /\ UNCHANGED rlock
       ELSE /\ rlock = "none"
            /\ IF deadline = PastDeadline
               THEN /\ rerr' = [rerr EXCEPT ![c] = "ErrDeadlineExceeded"]
                    /\ pc' = [pc EXCEPT ![c] = "unblocked"]
                    /\ UNCHANGED rlock
               ELSE /\ rlock' = c
                    /\ pc' = [pc EXCEPT ![c] = "pred"]
                    /\ UNCHANGED rerr
    /\ UNCHANGED <<procVars, f, fds, deadline, callVars, wpc, ctxErr,
                   canceled, cerr, werr, serr, ret, histVars>>

\* The poller calls the function: waitid on the pidfd.  EAGAIN keeps the
\* read waiting for readiness; anything else is stored and ends the read.
ReadCall(c) ==
    /\ pc[c] = "pred"
    /\ IF ReadFunc(Waitid).stop
       THEN /\ werr' = [werr EXCEPT ![c] = ReadFunc(Waitid).werr]
            /\ rlock' = "none"
            /\ pc' = [pc EXCEPT ![c] = "unblocked"]
       ELSE /\ pc' = [pc EXCEPT ![c] = "parked"]
            /\ UNCHANGED <<werr, rlock>>
    /\ proc' = AfterWaitid
    /\ UNCHANGED <<status, pending, reapStatus, f, fds, deadline, callVars, wpc,
                   ctxErr, canceled, cerr, rerr, serr, ret, histVars>>

\* The poller reports the pidfd readable: the function is called again.
PollReady(c) ==
    /\ pc[c] = "parked" /\ Readable
    /\ pc' = [pc EXCEPT ![c] = "pred"]
    /\ UNCHANGED <<procVars, f, fds, deadline, rlock, callVars, wpc, ctxErr,
                   canceled, errVars, ret, histVars>>

\* The poller reports readiness although the process has not exited.
PollSpurious(c) ==
    /\ pc[c] = "parked" /\ ~Readable /\ spurious < MaxSpurious
    /\ spurious' = spurious + 1
    /\ pc' = [pc EXCEPT ![c] = "pred"]
    /\ UNCHANGED <<procVars, f, fds, deadline, rlock, callVars, wpc, ctxErr,
                   canceled, errVars, ret, nCanceled>>

\* The poller finds the read deadline expired: the read fails.
PollTimeout(c) ==
    /\ pc[c] = "parked" /\ deadline = PastDeadline
    /\ rerr' = [rerr EXCEPT ![c] = "ErrDeadlineExceeded"]
    /\ rlock' = "none"
    /\ pc' = [pc EXCEPT ![c] = "unblocked"]
    /\ UNCHANGED <<procVars, f, fds, deadline, callVars, wpc, ctxErr,
                   canceled, cerr, werr, serr, ret, histVars>>

\* cerr := ctx.Err()
SampleCtx(c) ==
    /\ pc[c] = "unblocked"
    /\ cerr' = [cerr EXCEPT ![c] = Err(c)]
    /\ pc' = [pc EXCEPT ![c] = "sampled"]
    /\ UNCHANGED <<procVars, f, fds, deadline, rlock, callVars, wpc, ctxErr,
                   canceled, rerr, werr, serr, ret, histVars>>

\* cancel()
Cancel(c) ==
    /\ pc[c] = "sampled"
    /\ canceled' = [canceled EXCEPT ![c] = TRUE]
    /\ pc' = [pc EXCEPT ![c] = "joining"]
    /\ UNCHANGED <<procVars, f, fds, deadline, rlock, callVars, wpc, ctxErr,
                   errVars, ret, histVars>>

\* wg.Wait()
Join(c) ==
    /\ pc[c] = "joining" /\ Joined(c)
    /\ pc' = [pc EXCEPT ![c] = "clearing"]
    /\ UNCHANGED <<procVars, f, fds, deadline, rlock, callVars, wpc, ctxErr,
                   canceled, errVars, ret, histVars>>

\* serr := f.c.SetReadDeadline(time.Time{})
ClearDeadline(c) ==
    /\ pc[c] = "clearing"
    /\ deadline' = SetReadDeadline(NoDeadline).deadline
    /\ serr' = [serr EXCEPT ![c] = SetReadDeadline(NoDeadline).err]
    /\ pc' = [pc EXCEPT ![c] = "resolved"]
    /\ UNCHANGED <<procVars, f, fds, rlock, callVars, wpc, ctxErr,
                   canceled, cerr, rerr, werr, ret, histVars>>

\* The first error in priority order is returned (the deferred cancel and
\* wg.Wait have nothing left to do).
WaitReturn(c) ==
    /\ pc[c] = "resolved"
    /\ ret' = [ret EXCEPT ![c] = FirstError(Priority(c))]
    /\ nCanceled' = IF FirstError(Priority(c)) = "Canceled" /\ nCanceled < MaxCanceled
                    THEN nCanceled + 1 ELSE nCanceled
    /\ pc' = [pc EXCEPT ![c] = "returned"]
    /\ UNCHANGED <<procVars, f, fds, deadline, rlock, callVars, wpc, ctxErr,
                   canceled, errVars, spurious>>

\* ----------------------------------------------------------- specification

\* The steps of caller c's Wait invocation that the program takes by itself.
WaitStep(c) ==
    \/ StartWatcher(c)
    \/ WatcherWake(c) \/ WatcherSet(c)
    \/ ReadEnter(c) \/ ReadCall(c) \/ PollReady(c) \/ PollSpurious(c)
    \/ PollTimeout(c)
    \/ SampleCtx(c) \/ Cancel(c) \/ Join(c) \/ ClearDeadline(c) \/ WaitReturn(c)

Environment == ProcExit \/ ProcDie \/ Reap

Next ==
    \/ Environment
    \/ \E pid \in Pids, exhausted \in BOOLEAN : Open(pid, exhausted)
    \/ Close
    \/ \E signal \in Signals : SendSignal(signal)
    \/ \E c \in SerialCallers :
          \/ \E e \in {nil} \cup CtxErrors : WaitStart(c, e)
          \/ \E e \in CtxErrors : CancelCtx(c, e)
          \/ WaitStep(c)

\* Serialized use of the handle: every Wait call is issued by one caller.
Spec == Init /\ [][Next]_vars

\* The two goroutines of a Wait invocation: the scheduler runs each of them
\* whenever it can take a step.
Watcher(c) == WatcherWake(c) \/ WatcherSet(c)
Main(c) ==
    \/ StartWatcher(c)
    \/ ReadEnter(c) \/ ReadCall(c) \/ PollReady(c) \/ PollSpurious(c)
    \/ PollTimeout(c)
    \/ SampleCtx(c) \/ Cancel(c) \/ Join(c) \/ ClearDeadline(c) \/ WaitReturn(c)

Fairness == \A c \in SerialCallers : WF_vars(Watcher(c)) /\ WF_vars(Main(c))

FairSpec == Spec /\ Fairness

\* The selection of wait's final error as a function of its four error
\* variables: a Wait invocation that has unblocked, joined its watcher and
\* cleared the deadline, with every combination of values the four can be
\* given, and the return as the only step.
SelectCErrs == {nil} \cup CtxErrors
SelectRErrs == {nil, "ErrDeadlineExceeded", "ErrFileClosing"}
SelectWErrs == {nil, "ECHILD", "EINTR", "EINVAL"}
SelectSErrs == {nil, "ErrFileClosing"}

InitSelect ==
    /\ proc = "running" /\ status = "none" /\ pending = "none"
    /\ reapStatus = "none"
    /\ f = [state |-> "open", pid |-> ChildPid, fd |-> LowestFreeOf({})]
    /\ fds = {LowestFreeOf({})}
    /\ deadline = NoDeadline
    /\ rlock = "none"
    /\ openCall = [pid |-> ChildPid, err |-> NoError]
    /\ sigCall = NoSend /\ sendCalls = 0
    /\ isCall = NoIs
    /\ pc = [c \in Callers |-> IF c \in SerialCallers THEN "resolved" ELSE "idle"]
    /\ wpc = [c \in Callers |-> IF c \in SerialCallers THEN "done" ELSE "none"]
    /\ ctxErr \in [Callers -> SelectCErrs]
    /\ canceled = [c \in Callers |-> c \in SerialCallers]
    /\ cerr = ctxErr
    /\ rerr \in [Callers -> SelectRErrs]
    /\ werr \in [Callers -> SelectWErrs]
    /\ serr \in [Callers -> SelectSErrs]
    /\ \A c \in Callers \ SerialCallers :
          ctxErr[c] = nil /\ rerr[c] = nil /\ werr[c] = nil /\ serr[c] = nil
    /\ ret = [c \in Callers |-> nil]
    /\ spurious = 0 /\ nCanceled = 0

NextSelect == \E c \in SerialCallers : WaitReturn(c)

SpecSelect == InitSelect /\ [][NextSelect]_vars

\* Use of the handle that is not serialized: the child is running and the
\* handle to it is open, and every caller may call Wait at any time, so that
\* Wait invocations overlap.
InitOverlap ==
    /\ proc = "running" /\ status = "none" /\ pending = "none"
    /\ reapStatus = "none"
    /\ f = [state |-> "open", pid |-> ChildPid, fd |-> LowestFreeOf({})]
    /\ fds = {LowestFreeOf({})}
    /\ deadline = NoDeadline
    /\ rlock = "none"
    /\ openCall = [pid |-> ChildPid, err |-> NoError]
    /\ sigCall = NoSend /\ sendCalls = 0
    /\ isCall = NoIs
    /\ pc = [c \in Callers |-> "idle"]
    /\ wpc = [c \in Callers |-> "none"]
    /\ ctxErr = [c \in Callers |-> nil]
    /\ canceled = [c \in Callers |-> FALSE]
    /\ cerr = [c \in Callers |-> nil]
    /\ rerr = [c \in Callers |-> nil]
    /\ werr = [c \in Callers |-> nil]
    /\ serr = [c \in Callers |-> nil]
    /\ ret = [c \in Callers |-> nil]
    /\ spurious = 0 /\ nCanceled = 0

NextOverlap ==
    \/ ProcExit
    \/ \E c \in Callers :
          \/ \E e \in {nil, "Canceled"} : WaitStart(c, e)
          \/ CancelCtx(c, "Canceled")
          \/ WaitStep(c)

SpecOverlap == InitOverlap /\ [][NextOverlap]_vars

\* errors.Is as a function of the Error it is given: an Error with every
\* pid, either descriptor value and every cause below, and the call of
\* errors.Is with either of package os's sentinels as the only step.
ClassifyErrnos == {"ESRCH", "EPERM", "EACCES", "ENOENT", "EBADF", "EMFILE", "EINVAL"}

\* A cause is an errno, bare (as open wraps it) or inside an
\* *os.SyscallError (as the signal delivery returns it).
Causes ==
    {<<Errno(e)>> : e \in ClassifyErrnos}
        \cup {NewSyscallError(op, e) :
                  op \in {"pidfd_open", "pidfd_send_signal"}, e \in ClassifyErrnos}

Targets == {ErrNotExist, ErrPermission}

\* errors.Is(err, target) on the Error at hand: the answer of (*Error).Is
\* itself and the result of the whole chain walk.
Classify(target) ==
    /\ isCall.err # NoError
    /\ isCall' = [called |-> TRUE, err |-> isCall.err, target |-> target,
                  own |-> ErrorIs(isCall.err, target),
                  result |-> ErrorsIs(isCall.err, target)]
    /\ UNCHANGED <<procVars, f, fds, deadline, rlock, openCall, sigCall,
                   sendCalls, waitVars, histVars>>

InitClassify ==
    /\ proc = "running" /\ status = "none" /\ pending = "none"
    /\ reapStatus = "none"
    /\ f = [state |-> "none", pid |-> 0, fd |-> 0]
    /\ fds = {}
    /\ deadline = NoDeadline
    /\ rlock = "none"
    /\ openCall = NoOpen /\ sigCall = NoSend /\ sendCalls = 0
    /\ \E pid \in Pids, fd \in {0, LowestFreeOf({})}, cause \in Causes :
          isCall = [NoIs EXCEPT !.err = DomainError(pid, fd, cause)]
    /\ pc = [c \in Callers |-> "idle"]
    /\ wpc = [c \in Callers |-> "none"]
    /\ ctxErr = [c \in Callers |-> nil]
    /\ canceled = [c \in Callers |-> FALSE]
    /\ cerr = [c \in Callers |-> nil]
    /\ rerr = [c \in Callers |-> nil]
    /\ werr = [c \in Callers |-> nil]
    /\ serr = [c \in Callers |-> nil]
    /\ ret = [c \in Callers |-> nil]
    /\ spurious = 0 /\ nCanceled = 0

NextClassify == \E target \in Targets : Classify(target)

SpecClassify == InitClassify /\ [][NextClassify]_vars

\* ------------------------------------------------------------------ claims

\* C1: when Wait resolves, the error it returns is the first non-nil one of
\* context error, poller-call error, recorded OS-check error, deadline-clear
\* error, in that order, and it returns nil exactly when all four are nil,
\* for every combination of nil and non-nil values of the four.
C1_ErrorPriority ==
    \A c \in SerialCallers :
        pc[c] = "returned" =>
            /\ ret[c] = IF cerr[c] # nil THEN cerr[c]
                        ELSE IF rerr[c] # nil THEN rerr[c]
                        ELSE IF werr[c] # nil THEN werr[c]
                        ELSE serr[c]
            /\ ret[c] = nil <=>
                  (cerr[c] = nil /\ rerr[c] = nil /\ werr[c] = nil /\ serr[c] = nil)

\* A Wait has returned the poller's error although an OS-check error and a
\* deadline-clear error were set as well, the context error being nil.
C1_Witness ==
    \E c \in SerialCallers :
        /\ pc[c] = "returned"
        /\ cerr[c] = nil /\ rerr[c] # nil /\ werr[c] # nil /\ serr[c] # nil
        /\ ret[c] = rerr[c]

\* The positions of a Wait invocation after it has sampled its context.
PostSample == {"sampled", "joining", "clearing", "resolved"}

\* C2: cancellation wins ties.  If the context given to Wait is canceled
\* when Wait samples it after the poller has returned (a context canceled
\* before the call included), the sample is Canceled, it is kept until the
\* return, and Wait returns Canceled, whatever the poller and the exit check
\* reported (a recorded successful exit included).
C2_CancelWinsTies ==
    [][\A c \in SerialCallers :
          /\ (pc[c] = "unblocked" /\ pc'[c] # "unblocked" /\ ctxErr[c] = "Canceled")
                => cerr'[c] = "Canceled"
          /\ (pc[c] \in PostSample /\ cerr[c] = "Canceled")
                => cerr'[c] = "Canceled"
          /\ (pc[c] = "resolved" /\ pc'[c] = "returned" /\ cerr[c] = "Canceled")
                => ret'[c] = "Canceled"]_vars

\* A Wait returned Canceled although the process had exited and the exit
\* check had recorded the exit (the poller call and the check both nil).
C2_Witness ==
    \E c \in SerialCallers :
        /\ pc[c] = "returned" /\ ret[c] = "Canceled"
        /\ f.state = "open" /\ f.pid = ChildPid /\ proc = "zombie"
        /\ rerr[c] = nil /\ werr[c] = nil

\* C3: Wait returns nil only after the observed process has exited, however
\* often the poller calls the function (spurious readiness) and however many
\* earlier Wait calls on the handle were canceled.
C3_SuccessOnlyAfterExit ==
    \A c \in SerialCallers :
        (pc[c] = "returned" /\ ret[c] = nil) =>
            (f.pid = ChildPid /\ proc # "running")

\* A Wait returned nil after spurious readiness reports and after earlier
\* Wait calls on the handle had returned Canceled.
C3_Witness ==
    \E c \in SerialCallers :
        /\ pc[c] = "returned" /\ ret[c] = nil
        /\ spurious = MaxSpurious /\ nCanceled > 0

\* C4: no deadline state leaks from one Wait call to the next.  Under
\* serialized use every Wait that returns while the open handle's child is
\* still running returns its context's error (Canceled for a canceled
\* context), however many such calls came before; and a Wait whose context
\* was never canceled returns neither a context error nor a poller timeout:
\* on an open handle to the child, its exit status unreaped, it returns nil.
C4_NoDeadlineLeak ==
    \A c \in SerialCallers :
        pc[c] = "returned" =>
            /\ (f.state = "open" /\ f.pid = ChildPid /\ proc = "running")
                  => (ret[c] # nil /\ ret[c] = ctxErr[c])
            /\ ctxErr[c] = nil
                  => ret[c] \notin CtxErrors \cup {"ErrDeadlineExceeded"}
            /\ (ctxErr[c] = nil /\ f.state = "open" /\ f.pid = ChildPid
                  /\ proc # "reaped")
                  => ret[c] = nil

\* After MaxCanceled canceled Wait calls and a delivered SIGINT, a Wait
\* whose context was not canceled returned nil.
C4_Witness ==
    \E c \in SerialCallers :
        /\ pc[c] = "returned" /\ ret[c] = nil /\ ctxErr[c] = nil
        /\ nCanceled = MaxCanceled
        /\ sigCall.called /\ status = "SIGINT"

\* C5: cancellation liveness.  Under fair scheduling of the watcher and of
\* the main path (the poller included), a Wait that is blocked in the poller
\* with its context canceled while the process is still running eventually
\* returns, and returns Canceled.
C5_CancelLiveness ==
    \A c \in SerialCallers :
        (pc[c] = "parked" /\ ctxErr[c] = "Canceled" /\ proc = "running")
            ~> (pc[c] = "returned" /\ ret[c] = "Canceled")

\* A Wait is blocked in the poller, its context canceled and the process
\* running, and its watcher has forced the expired deadline.
C5_Witness ==
    \E c \in SerialCallers :
        /\ pc[c] = "parked" /\ ctxErr[c] = "Canceled" /\ proc = "running"
        /\ wpc[c] = "done" /\ deadline = PastDeadline

\* C6: exit liveness.  Under the same fairness, once the child observed
\* through an open handle has exited (before the Wait call or during it, on
\* its own or by a signal), a Wait in progress eventually returns nil,
\* unless its context is canceled or the caller itself reaps the exit
\* status first.
C6_ExitLiveness ==
    \A c \in SerialCallers :
        (pc[c] \in Active /\ f.state = "open" /\ f.pid = ChildPid /\ proc = "zombie")
            ~> \/ pc[c] = "returned" /\ ret[c] = nil
               \/ ctxErr[c] # nil
               \/ proc = "reaped"

\* A Wait whose context was not canceled returned nil for a child that
\* the SIGHUP delivered by SendSignal had terminated.
C6_Witness ==
    \E c \in SerialCallers :
        /\ pc[c] = "returned" /\ ret[c] = nil /\ ctxErr[c] = nil
        /\ proc = "zombie" /\ status = "SIGHUP"

\* C7: Wait is non-destructive.  No step of a Wait invocation (the exit
\* checks included) changes the process's state or its exit status, so the
\* status is reaped only by the caller's own wait, which obtains it as the
\* process left it.
C7_NonDestructive ==
    [][/\ (pc' # pc \/ wpc' # wpc) => UNCHANGED <<proc, status, reapStatus>>
       /\ (proc' = "reaped" /\ proc # "reaped")
             => (proc = "zombie" /\ reapStatus' = status /\ status' = status
                 /\ status # "none")]_vars

\* After a Wait returned nil, the caller's own wait obtained the exit
\* status: terminated by the SIGINT that SendSignal delivered.
C7_Witness ==
    \E c \in SerialCallers :
        /\ pc[c] = "returned" /\ ret[c] = nil
        /\ proc = "reaped" /\ reapStatus = "SIGINT" /\ sigCall.sig = SIGINT

C9_OpenNotExist ==
    [][\A pid \in Pids, exhausted \in BOOLEAN :
          (Open(pid, exhausted) /\ ~(pid = InitPid \/ (pid = ChildPid /\ proc # "reaped"))) =>
              /\ openCall'.pid = pid
              /\ openCall'.err # NoError
              /\ Head(openCall'.err) = [type |-> "Error", PID |-> pid, FD |-> 0]
              /\ ErrorsIs(openCall'.err, ErrNotExist)
              /\ f'.state = "none" /\ fds' = {}]_vars

\* Open of the pid no process has failed with os.ErrNotExist, and no File
\* and no descriptor exist.
C9_Witness ==
    /\ openCall.pid = GonePid
    /\ ErrorsIs(openCall.err, ErrNotExist)
    /\ f.state = "none" /\ fds = {}

\* C10: SendSignal with a signal that is not a unix.Signal fails at once
\* with the invalid-signal error and calls nothing: the delivery primitive
\* is not invoked, the process receives no signal, and the File's pid,
\* descriptor and read deadline are unchanged.
C10_InvalidSignal ==
    [][\A signal \in Signals :
          (SendSignal(signal) /\ signal.type # "unix.Signal") =>
              /\ sigCall'.err =
                    <<[type |-> "errorString",
                       msg |-> "pidfd: invalid signal type for File.SendSignal"]>>
              /\ ~sigCall'.called
              /\ UNCHANGED <<sendCalls, pending, proc, status, f, fds, deadline>>]_vars

\* SendSignal was called on an open handle with a signal of another type
\* and failed; the delivery primitive has never been invoked.
C10_Witness ==
    /\ f.state = "open" /\ proc = "running"
    /\ sigCall.sig = OtherSignal /\ sigCall.err # NoError
    /\ sendCalls = 0 /\ pending = "none"

\* Whether a cause is or wraps one of the errno values E.
IsOrWraps(cause, E) ==
    \E i \in 1..Len(cause) : cause[i].type = "Errno" /\ cause[i].errno \in E

\* C11: classifying an Error is a function of its wrapped cause and leaves
\* the Error as it was.  (*Error).Is itself answers only os.ErrNotExist, and
\* exactly when the cause is or wraps ESRCH; every other match is left to the
\* cause chain, so that errors.Is finds the Error to be os.ErrNotExist
\* exactly when the cause is or wraps ESRCH or ENOENT, and os.ErrPermission
\* exactly when it is or wraps EPERM or EACCES (in particular whenever it is
\* ESRCH, respectively EPERM); an Error with any other cause is neither.
C11_Classification ==
    [][\A target \in Targets :
          Classify(target) =>
              /\ isCall'.err = isCall.err
              /\ isCall'.own <=>
                    (target = ErrNotExist /\ IsOrWraps(Unwrap(isCall.err), {"ESRCH"}))
              /\ target = ErrNotExist =>
                    (isCall'.result <=>
                        IsOrWraps(Unwrap(isCall.err), {"ESRCH", "ENOENT"}))
              /\ target = ErrPermission =>
                    (isCall'.result <=>
                        IsOrWraps(Unwrap(isCall.err), {"EPERM", "EACCES"}))]_vars

\* errors.Is found an Error that wraps the EPERM of pidfd_send_signal to be
\* os.ErrPermission, through the cause chain and not through (*Error).Is.
C11_Witness ==
    /\ isCall.called /\ isCall.target = ErrPermission
    /\ Unwrap(isCall.err) = NewSyscallError("pidfd_send_signal", "EPERM")
    /\ isCall.result /\ ~isCall.own

\* C11 as stated: an Error is os.ErrNotExist if and only if its cause is or
\* wraps ESRCH, and os.ErrPermission if and only if its cause is or wraps
\* EPERM.
C11_OnlyTheTwoCodes ==
    [][\A target \in Targets :
          Classify(target) =>
              /\ isCall'.err = isCall.err
              /\ target = ErrNotExist =>
                    (isCall'.result <=> IsOrWraps(Unwrap(isCall.err), {"ESRCH"}))
              /\ target = ErrPermission =>
                    (isCall'.result <=> IsOrWraps(Unwrap(isCall.err), {"EPERM"}))]_vars

\* The positions of a Wait invocation's main path before wg.Wait() returns.
PreJoin == {"read", "pred", "parked", "unblocked", "sampled", "joining"}

\* C12: join before clear.  Within a Wait invocation the main path clears
\* the deadline only once its watcher has completed, the watcher writes the
\* expired deadline only while the main path has not yet passed the join,
\* and once the main path has cleared the deadline nothing of the invocation
\* writes it again: the invocation's last write is the clear.
C12_JoinBeforeClear ==
    [][\A c \in SerialCallers :
          /\ ClearDeadline(c) => wpc[c] = "done"
          /\ WatcherSet(c) => pc[c] \in PreJoin
          /\ pc[c] \in {"resolved", "returned"} => deadline' = deadline]_vars

\* A canceled Wait on the open handle: its watcher forced the expired
\* deadline, which failed the read, and the main path has since joined the
\* watcher and cleared the deadline.
C12_Witness ==
    \E c \in SerialCallers :
        /\ pc[c] = "resolved" /\ wpc[c] = "done" /\ f.state = "open"
        /\ ctxErr[c] = "Canceled" /\ rerr[c] = "ErrDeadlineExceeded"
        /\ deadline = NoDeadline

\* C13: whenever a Wait call has returned, whatever it returned, the
\* descriptor has no read deadline.
C13_DeadlineResetAtReturn ==
    \A c \in SerialCallers :
        pc[c] = "returned" => deadline = NoDeadline

\* A Wait returned the deadline error of its context after its watcher had
\* forced the expired deadline on the open handle, and no deadline is left.
C13_Witness ==
    \E c \in SerialCallers :
        /\ pc[c] = "returned" /\ ret[c] = "DeadlineExceeded" /\ f.state = "open"
        /\ rerr[c] = "ErrDeadlineExceeded" /\ deadline = NoDeadline

\* C14: cancellation preempts the exit check.  The function Wait passes to
\* the poller performs no exit check (waitid) when it is called while the
\* context of the Wait is done; in particular a Wait that is called with a
\* context already canceled performs none.
C14_CancelPreemptsCheck ==
    [][\A c \in SerialCallers : ReadCall(c) => ~Done(c)]_vars

\* C15: no internal retry.  The function keeps the poller waiting only when
\* waitid reports EAGAIN (not yet exited); any other result, the exit or an
\* error, is stored in werr and ends the read.  From then on the invocation
\* never calls the function again and werr keeps its value, and a Wait whose
\* sampled context error and whose poller error are both nil returns werr:
\* nil for the exit, waitid's error as it was otherwise.
C15_NoInternalRetry ==
    [][\A c \in SerialCallers :
          /\ ReadCall(c) =>
                IF Waitid = "EAGAIN"
                THEN pc'[c] = "parked" /\ werr'[c] = nil
                ELSE pc'[c] = "unblocked" /\ werr'[c] = Waitid
          /\ pc[c] \in {"unblocked"} \cup PostSample =>
                /\ werr'[c] = werr[c]
                /\ pc'[c] \notin {"read", "pred", "parked"}
          /\ (WaitReturn(c) /\ cerr[c] = nil /\ rerr[c] = nil) =>
                ret'[c] = werr[c]]_vars

\* A Wait with a live context on the handle to init returned ECHILD, the
\* error of its first and only exit check.
C15_Witness ==
    \E c \in SerialCallers :
        /\ pc[c] = "returned" /\ ret[c] = "ECHILD" /\ werr[c] = "ECHILD"
        /\ cerr[c] = nil /\ rerr[c] = nil
        /\ f.state = "open" /\ f.pid = InitPid

\* C16: the watcher does not leak and the join does not deadlock.  A Wait
\* invocation starts its watcher once, on entry; whenever a Wait has
\* returned its watcher has finished; and, the goroutines being scheduled
\* fairly, a main path that waits at the join gets past it, also when the
\* caller's context is never canceled: the cancel() before the join releases
\* the watcher.
C16_WatcherJoined ==
    /\ [](\A c \in SerialCallers :
             /\ pc[c] = "returned" => wpc[c] = "done"
             /\ pc[c] \in Active \ {"init"} => wpc[c] # "none")
    /\ [][\A c \in SerialCallers :
             (wpc'[c] = "waiting" /\ wpc[c] # "waiting") =>
                 (pc[c] = "init" /\ pc'[c] = "read")]_vars
    /\ \A c \in SerialCallers :
          pc[c] = "joining" ~> pc[c] = "clearing"

\* A Wait whose context was never canceled returned nil with its watcher
\* finished: the watcher was released by wait's own cancel().
C16_Witness ==
    \E c \in SerialCallers :
        /\ pc[c] = "returned" /\ ret[c] = nil /\ ctxErr[c] = nil
        /\ canceled[c] /\ wpc[c] = "done"

\* C17: no spurious interruption.  Under serialized calls the watcher sets
\* the expired deadline only when the derived context is done: the caller's
\* context is done, or the main path has left the poller and called cancel().
\* So a read of a Wait whose context is live is never failed by the deadline,
\* and a Wait whose context is live returns no deadline or timeout error.
C17_NoSpuriousInterruption ==
    [][\A c \in SerialCallers :
          /\ WatcherSet(c) => (ctxErr[c] # nil \/ pc[c] = "joining")
          /\ (pc[c] \in {"read", "parked"} /\ rerr'[c] = "ErrDeadlineExceeded")
                => ctxErr[c] # nil
          /\ (WaitReturn(c) /\ ctxErr[c] = nil) =>
                ret'[c] \notin {"ErrDeadlineExceeded", "DeadlineExceeded"}]_vars

\* The watcher of a Wait whose context is live has set the expired deadline
\* after the read had ended without an error and the main path had called
\* cancel().
C17_Witness ==
    \E c \in SerialCallers :
        /\ pc[c] = "joining" /\ wpc[c] = "done" /\ ctxErr[c] = nil
        /\ rerr[c] = nil /\ f.state = "open" /\ deadline = PastDeadline

\* The positions of a Wait invocation in which a deadline its watcher has
\* set is in force: the watcher has finished and the main path has not yet
\* cleared the deadline.
Forcing(d) == wpc[d] = "done" /\ pc[d] \in PreJoin \cup {"clearing"}

\* C18: serialized use is required.  When Wait invocations of two callers
\* overlap on a handle to a running child, the read of an invocation whose
\* own context is live fails on the expired deadline exactly through the
\* other invocation, whose watcher has forced the deadline and whose main
\* path has not yet cleared it; and an invocation whose own watcher has
\* forced the deadline finds itself blocked in the poller with no deadline
\* set only where the other caller has been calling Wait as well.
C18_OverlapInterferes ==
    /\ [][\A c \in Callers :
             (pc[c] \in {"read", "parked"} /\ rerr'[c] = "ErrDeadlineExceeded"
                /\ ctxErr[c] = nil)
                => \E d \in Callers \ {c} : Forcing(d)]_vars
    /\ [](\A c \in Callers :
             (pc[c] = "parked" /\ wpc[c] = "done" /\ deadline = NoDeadline)
                => \E d \in Callers \ {c} : pc[d] # "idle")

\* With the child still running, one caller's Wait has returned the
\* poller's timeout although its own context is live, and the other caller's
\* Wait is blocked in the poller although its own context is canceled and
\* its watcher has forced the deadline: the deadline has been cleared since.
C18_Witness ==
    \E c \in Callers, d \in Callers :
        /\ c # d /\ proc = "running"
        /\ pc[c] = "returned" /\ ret[c] = "ErrDeadlineExceeded" /\ ctxErr[c] = nil
        /\ pc[d] = "parked" /\ ctxErr[d] = "Canceled" /\ wpc[d] = "done"
        /\ deadline = NoDeadline

\* The state of the four-state machine of an invocation that a caller's
\* invocation is in: INIT until the watcher is started, WATCHING during
\* rc.Read, UNBLOCKED from the return of rc.Read until the watcher is joined,
\* RESOLVED from then on (the clear, the selection, the return).
Phase(c) ==
    CASE pc[c] = "idle" -> "NONE"
      [] pc[c] = "init" -> "INIT"
      [] pc[c] \in {"read", "pred", "parked"} -> "WATCHING"
      [] pc[c] \in {"unblocked", "sampled", "joining"} -> "UNBLOCKED"
      [] pc[c] \in {"clearing", "resolved", "returned"} -> "RESOLVED"

\* The order of the states: each is left for the next one only, and INIT is
\* entered by a call (the first, or one after a Wait that has returned).
PhaseOrder ==
    [][\A c \in SerialCallers :
          Phase(c)' # Phase(c) =>
              \/ Phase(c)' = "INIT" /\ pc[c] \in {"idle", "returned"}
              \/ Phase(c) = "INIT" /\ Phase(c)' = "WATCHING"
              \/ Phase(c) = "WATCHING" /\ Phase(c)' = "UNBLOCKED"
              \/ Phase(c) = "UNBLOCKED" /\ Phase(c)' = "RESOLVED"]_vars

\* Something ends the read of caller c's invocation: its context is done,
\* the process has exited, or the handle is closed or not one to a child.
WillUnblock(c) ==
    \/ ctxErr[c] # nil
    \/ proc # "running"
    \/ f.state # "open" \/ f.pid # ChildPid

\* C19: every invocation of Wait starts in INIT and passes through WATCHING,
\* UNBLOCKED and RESOLVED in that order, skipping none and revisiting none;
\* and, the goroutines being scheduled fairly, an invocation returns from
\* RESOLVED whenever something ends its read.  (An invocation whose context
\* stays live while the child keeps running stays in WATCHING.)
C19_StateMachine ==
    /\ PhaseOrder
    /\ \A c \in SerialCallers :
          (pc[c] \in Active /\ WillUnblock(c)) ~> pc[c] = "returned"

\* A Wait has gone through all four states and returned nil: entered with
\* the child running and a live context, it was blocked in the poller until
\* the child exited.
C19_Witness ==
    \E c \in SerialCallers :
        /\ pc[c] = "returned" /\ ret[c] = nil /\ ctxErr[c] = nil
        /\ status = "exit0" /\ proc = "zombie" /\ spurious > 0

\* C19 as stated: in that order, and every invocation reaches RESOLVED and
\* returns.
C19_AlwaysTerminates ==
    /\ PhaseOrder
    /\ \A c \in SerialCallers :
          pc[c] \in Active ~> pc[c] = "returned"

\* C20: Wait never cancels the context its caller supplied.  No step of a
\* Wait invocation changes the error of the caller's context: cancel() makes
\* the derived context done and nothing else, so a context that is not done
\* when Wait samples it is not made done by that Wait's tidying up or
\* return; and the context error Wait has sampled, and returns, is the
\* error of the caller's context, non-nil only if that context is done.
C20_CallerContextUntouched ==
    /\ [][\A c \in SerialCallers :
             /\ (pc[c] \in Active /\ (pc'[c] # pc[c] \/ wpc'[c] # wpc[c]))
                   => ctxErr'[c] = ctxErr[c]
             /\ Cancel(c) => (canceled'[c] /\ ctxErr'[c] = ctxErr[c])
             /\ (SampleCtx(c) /\ ctxErr[c] = nil) => cerr'[c] = nil]_vars
    /\ [](\A c \in SerialCallers :
             (pc[c] \in PostSample \cup {"returned"} /\ cerr[c] # nil)
                => ctxErr[c] = cerr[c])

\* A Wait has returned nil and has canceled its derived context, and the
\* context its caller supplied is still not done.
C20_Witness ==
    \E c \in SerialCallers :
        /\ pc[c] = "returned" /\ ret[c] = nil /\ cerr[c] = nil
        /\ canceled[c] /\ ctxErr[c] = nil /\ proc # "running"

\* C21: SendSignal and Close are independent of the wait machinery.  Neither
\* changes the descriptor's read deadline, the read lock, or anything of a
\* Wait invocation (its position, its watcher, its context, its errors);
\* SendSignal leaves the File, its pid and its descriptor as they are and does
\* not itself change the process's state or exit status, so it bears on
\* a Wait only through the process acting on the signal; Close keeps the
\* File's pid and descriptor number and leaves the process alone.
C21_SendCloseIndependent ==
    [][/\ \A signal \in Signals :
             SendSignal(signal) =>
                 UNCHANGED <<deadline, rlock, waitVars, f, fds, proc, status,
                             reapStatus>>
       /\ Close =>
             /\ UNCHANGED <<deadline, rlock, waitVars, procVars>>
             /\ f'.pid = f.pid /\ f'.fd = f.fd]_vars

\* After canceled Wait calls on the handle, SendSignal has delivered SIGINT
\* while a Wait with a live context is blocked in the poller: the child has
\* not yet acted on it, no deadline is set and the watcher is still waiting.
C21_Witness ==
    \E c \in SerialCallers :
        /\ pc[c] = "parked" /\ wpc[c] = "waiting" /\ ctxErr[c] = nil
        /\ nCanceled > 0 /\ deadline = NoDeadline
        /\ sigCall.called /\ sigCall.err = NoError
        /\ proc = "running" /\ pending = "SIGINT"

====
